---- MODULE Spec2Model ----
(***************************************************************************)
(* The three-stage pipeline of gitlab-clone-all: the discovery producer    *)
(* (fetch_projects), the clone dispatcher and its workers (clone_projects) *)
(* and the progress aggregator (the loop of main), connected by the two    *)
(* bounded channels created in main.                                       *)
(*                                                                         *)
(* The repository holds two copies of fetch_projects: src/gitlab.rs tests  *)
(* the termination rule BEFORE publishing a page, src/main.rs tests it     *)
(* AFTER publishing the page.  The variable `variant` says which copy the  *)
(* run uses; both are checked.                                             *)
(*                                                                         *)
(* main returns when the aggregator returns, and the process ends with it: *)
(* every task of the runtime is dropped.  All task actions are therefore   *)
(* guarded by aggPc = "run".                                               *)
(***************************************************************************)
EXTENDS Integers, Sequences, FiniteSets, TLC

\* ------------------------------------------------------------------ bounds
MaxId == 2          \* project identifiers are 1..MaxId
MaxRequests == 3    \* listing requests answered by the server in one run
MaxListed == 2      \* projects listed over all the pages of one run
MaxBytes == 1       \* received_bytes reported by one transfer
ChannelCap == 1     \* capacity of each of the two channels (500 in main)

\* ----------------------------------------------------------- option values
None == <<>>
Some(v) == <<v>>
IsNone(o) == o = None
Unwrap(o) == o[1]

VARIABLES
    variant,            \* "gitlab" | "main": the copy of fetch_projects run
    pages,              \* the listing responses received so far, in order
    discPc,             \* position of fetch_projects
    project_id_after,   \* fetch_projects: Option<u64> cursor
    new_project_id_after, \* fetch_projects: last id of the current page
    cur,                \* fetch_projects: projects of the page still to publish
    discStep,           \* index in PublishSteps of the next send of the loop body
    nPublished,         \* loop bodies started (identifies a publication)
    toCloneSent,        \* publications whose ToClone event was enqueued
    projectsSent,       \* publications whose project was enqueued
    chProjects,         \* project channel (FIFO)
    chActions,          \* event channel (FIFO)
    dispPc,             \* position of clone_projects: "recv" | "done"
    workers,            \* spawned clone workers, by publication
    agg,                \* aggregator counters: todo_count, total_count, ...
    aggPc,              \* "run" | "done"
    summary,            \* the summary line was printed
    mainResult,         \* "none" | "Ok" | "Err": what main returned
    failed_count,       \* history: Failed events processed
    procToClone,        \* history: publications whose ToClone was processed
    procTerminal,       \* history: publications whose Cloned/Failed was processed
    lastEvent           \* history: type of the event processed last

vars == <<variant, pages, discPc, project_id_after, new_project_id_after, cur,
          discStep, nPublished, toCloneSent, projectsSent, chProjects,
          chActions, dispPc, workers, agg, aggPc, summary, mainResult,
          failed_count, procToClone, procTerminal, lastEvent>>

discVars == <<pages, discPc, project_id_after, new_project_id_after, cur,
              discStep, nPublished, toCloneSent, projectsSent>>
aggVars == <<agg, aggPc, summary, mainResult, failed_count, procToClone,
             procTerminal, lastEvent>>

\* ------------------------------------------------------------ the listing
RECURSIVE Ascending(_)
Ascending(s) ==
    IF Len(s) <= 1 THEN TRUE
    ELSE s[1] < s[2] /\ Ascending(Tail(s))

\* A page: the listing is ordered by ascending identifier (order_by=id&sort=asc).
Pages ==
    {s \in UNION {[1..n -> 1..MaxId] : n \in 0..MaxId} : Ascending(s)}

OkResponse(p) == [ok |-> TRUE, err |-> "none", projects |-> p]
ErrResponse(e) == [ok |-> FALSE, err |-> e, projects |-> <<>>]
Responses ==
    {OkResponse(p) : p \in Pages} \cup {ErrResponse(e) : e \in {"transport", "decode"}}

RECURSIVE SumSizes(_)
SumSizes(ps) ==
    IF ps = <<>> THEN 0 ELSE Len(Head(ps).projects) + SumSizes(Tail(ps))

\* projects.iter().map(|p| p.id).last()
LastId(projects) ==
    IF Len(projects) = 0 THEN None ELSE Some(projects[Len(projects)])

\* Variant of BreakCondition that only stops on an empty page.
BreakOnEmptyOnly(new, after) == IsNone(new)

\* new_project_id_after == project_id_after || new_project_id_after.is_none()
BreakCondition(new, after) == new = after \/ IsNone(new)

\* The listing is finite: the last request the server answers fails or
\* returns a page that ends the pagination.
AllowedResponse(r) ==
    /\ SumSizes(pages) + Len(r.projects) <= MaxListed
    /\ (Len(pages) = MaxRequests - 1 /\ r.ok) =>
            (LastId(r.projects) = project_id_after \/ Len(r.projects) = 0)

\* Variant of PublishSteps that publishes the project before announcing it.
PublishStepsSwapped == <<"Project", "ToClone">>

\* The two sends of the loop body of fetch_projects, in order.
PublishSteps == <<"ToClone", "Project">>

Init ==
    /\ variant \in {"gitlab", "main"}
    /\ pages = <<>>
    /\ discPc = "fetch"
    /\ project_id_after = None
    /\ new_project_id_after = None
    /\ cur = <<>>
    /\ discStep = 1
    /\ nPublished = 0
    /\ toCloneSent = 0
    /\ projectsSent = 0
    /\ chProjects = <<>>
    /\ chActions = <<>>
    /\ dispPc = "recv"
    /\ workers = <<>>
    /\ agg = [todo_count |-> None, total_count |-> 0, cloned_count |-> 0,
              total_bytes |-> 0]
    /\ aggPc = "run"
    /\ summary = FALSE
    /\ mainResult = "none"
    /\ failed_count = 0
    /\ procToClone = {}
    /\ procTerminal = {}
    /\ lastEvent = "none"

\* ------------------------------------------------ discovery: fetch_projects
Alive == aggPc = "run"

\* Position of fetch_projects once the for loop over a page is over (or, in
\* src/gitlab.rs, once the termination rule has let the page through).
\* gitlab.rs: the rule was tested before the loop; main.rs: it is tested now.
EndOfPage(new) ==
    IF variant = "main" /\ BreakCondition(new, project_id_after)
    THEN /\ discPc' = "done"
         /\ UNCHANGED project_id_after
    ELSE /\ discPc' = "fetch"
         /\ project_id_after' = new

\* One listing request: fetch_projects_paginated(...).await, then the part of
\* the loop body that follows it up to the first send.
Fetch(r) ==
    /\ Alive
    /\ discPc = "fetch"
    /\ Len(pages) < MaxRequests
    /\ AllowedResponse(r)
    /\ pages' = Append(pages, r)
    /\ IF ~r.ok
       THEN /\ discPc' = "failed"
            /\ UNCHANGED <<project_id_after, new_project_id_after, cur>>
       ELSE /\ new_project_id_after' = LastId(r.projects)
            /\ IF variant = "gitlab"
               THEN IF BreakCondition(LastId(r.projects), project_id_after)
                    THEN /\ discPc' = "done"
                         /\ UNCHANGED <<project_id_after, cur>>
                    ELSE /\ discPc' = "publish"
                         /\ cur' = r.projects
                         /\ UNCHANGED project_id_after
               ELSE IF Len(r.projects) = 0
                    THEN /\ EndOfPage(LastId(r.projects))
                         /\ UNCHANGED cur
                    ELSE /\ discPc' = "publish"
                         /\ cur' = r.projects
                         /\ UNCHANGED project_id_after
    /\ UNCHANGED <<variant, discStep, nPublished, toCloneSent, projectsSent,
                   chProjects, chActions, dispPc, workers>>
    /\ UNCHANGED aggVars

\* The publication the loop body is working on.
CurPub == IF discStep = 1 THEN nPublished + 1 ELSE nPublished

ToCloneEvent(p) ==
    [type |-> "ToClone", pub |-> p, received_bytes |-> 0,
     received_objects |-> 0, err |-> "none"]

\* After one send of the loop body: the next send, the next project, or the
\* end of the page.
AdvanceLoop ==
    /\ nPublished' = CurPub
    /\ IF discStep < Len(PublishSteps)
       THEN /\ discStep' = discStep + 1
            /\ UNCHANGED <<discPc, project_id_after, cur>>
       ELSE /\ discStep' = 1
            /\ cur' = Tail(cur)
            /\ IF Tail(cur) = <<>>
               THEN EndOfPage(new_project_id_after)
               ELSE UNCHANGED <<discPc, project_id_after>>

\* tx_projects_actions.send(ProjectAction::ToClone).await: waits for room.
SendToClone ==
    /\ Alive
    /\ discPc = "publish"
    /\ PublishSteps[discStep] = "ToClone"
    /\ Len(chActions) < ChannelCap
    /\ chActions' = Append(chActions, ToCloneEvent(CurPub))
    /\ toCloneSent' = toCloneSent + 1
    /\ AdvanceLoop
    /\ UNCHANGED <<variant, pages, new_project_id_after, projectsSent,
                   chProjects, dispPc, workers>>
    /\ UNCHANGED aggVars

\* Variant of NextProject that takes the projects of a page from the back.
NextProjectFromBack(c) == c[Len(c)]

\* for project in projects: the project of the current iteration.
NextProject(c) == Head(c)

\* tx_projects.send(project).await: waits for room.
SendProject ==
    /\ Alive
    /\ discPc = "publish"
    /\ PublishSteps[discStep] = "Project"
    /\ Len(chProjects) < ChannelCap
    /\ chProjects' = Append(chProjects, [id |-> NextProject(cur), pub |-> CurPub])
    /\ projectsSent' = projectsSent + 1
    /\ AdvanceLoop
    /\ UNCHANGED <<variant, pages, new_project_id_after, toCloneSent,
                   chActions, dispPc, workers>>
    /\ UNCHANGED aggVars

\* fetch_projects has returned (Ok or Err): its two senders are dropped.
DiscoveryReturned == discPc \in {"done", "failed"}

\* ------------------------------------------ dispatcher: clone_projects loop
\* Variant of DispatchSpawn that awaits the worker it spawned before it
\* receives the next project.
DispatchSpawnAwaitsWorker ==
    /\ Alive
    /\ dispPc = "recv"
    /\ chProjects # <<>>
    /\ \A i \in 1..Len(workers) : workers[i].state # "spawned"
    /\ chProjects' = Tail(chProjects)
    /\ workers' = Append(workers, [pub |-> Head(chProjects).pub,
                                   id |-> Head(chProjects).id,
                                   state |-> "spawned",
                                   outcome |-> "none"])
    /\ UNCHANGED <<variant, chActions, dispPc>>
    /\ UNCHANGED discVars
    /\ UNCHANGED aggVars

\* rx_projects.recv() yields a project: spawn its worker with a clone of the
\* event sender.
DispatchSpawn ==
    /\ Alive
    /\ dispPc = "recv"
    /\ chProjects # <<>>
    /\ chProjects' = Tail(chProjects)
    /\ workers' = Append(workers, [pub |-> Head(chProjects).pub,
                                   id |-> Head(chProjects).id,
                                   state |-> "spawned",
                                   outcome |-> "none"])
    /\ UNCHANGED <<variant, chActions, dispPc>>
    /\ UNCHANGED discVars
    /\ UNCHANGED aggVars

\* rx_projects.recv() yields None: the channel is empty and its sender dropped.
DispatchClosed ==
    /\ Alive
    /\ dispPc = "recv"
    /\ chProjects = <<>>
    /\ DiscoveryReturned
    /\ dispPc' = "done"
    /\ UNCHANGED <<variant, chProjects, chActions, workers>>
    /\ UNCHANGED discVars
    /\ UNCHANGED aggVars

\* ------------------------------------------------------------ clone worker
\* expanded_path.join(&project.path_with_namespace): the root is the same for
\* every worker and a project has one namespaced path, so the destination is
\* told by the project.
DestinationPath(w) == w.id

MirrorOutcomes == {"Ok", "Exists", "Error"}

\* What the transfer_progress callback last stored.
TransferStats ==
    {[bytes |-> 0, objects |-> 0]} \cup
    {[bytes |-> b, objects |-> 1] : b \in 1..MaxBytes}

\* The terminal event of the match on builder.clone(...).  A destination that
\* already exists is refused before any transfer: the counters are still 0.
TerminalEvent(p, outcome, stats) ==
    CASE outcome = "Ok" ->
            [type |-> "Cloned", pub |-> p, received_bytes |-> stats.bytes,
             received_objects |-> stats.objects, err |-> "none"]
      [] outcome = "Exists" ->
            [type |-> "Cloned", pub |-> p, received_bytes |-> 0,
             received_objects |-> 0, err |-> "none"]
      [] OTHER ->
            [type |-> "Failed", pub |-> p, received_bytes |-> 0,
             received_objects |-> 0, err |-> "error"]

\* The spawned task: the mirror operation, then try_send(...).unwrap(), which
\* panics when the event channel is full.
WorkerRun(i, outcome, stats) ==
    /\ Alive
    /\ workers[i].state = "spawned"
    /\ outcome # "Ok" => stats = [bytes |-> 0, objects |-> 0]
    /\ IF Len(chActions) < ChannelCap
       THEN /\ chActions' = Append(chActions,
                                   TerminalEvent(workers[i].pub, outcome, stats))
            /\ workers' = [workers EXCEPT ![i].state = "emitted",
                                          ![i].outcome = outcome]
       ELSE /\ workers' = [workers EXCEPT ![i].state = "panicked",
                                          ![i].outcome = outcome]
            /\ UNCHANGED chActions
    /\ UNCHANGED <<variant, chProjects, dispPc>>
    /\ UNCHANGED discVars
    /\ UNCHANGED aggVars

\* ------------------------------------------------- aggregator: loop of main
\* usize arithmetic of the counters.  UsizeMax stands for usize::MAX, the
\* value 0 - 1 wraps to.
UsizeMax == 2147483647
UsizeInc(n) == IF n = UsizeMax THEN 0 ELSE n + 1
UsizeDec(n) == IF n = 0 THEN UsizeMax ELSE n - 1

\* Variant of TodoAfterToClone that restarts the count at every ToClone.
TodoAfterToCloneRestarts(todo) == Some(1)

\* todo_count.map(|n| n + 1).or(Some(1))
TodoAfterToClone(todo) ==
    IF IsNone(todo) THEN Some(1) ELSE Some(UsizeInc(Unwrap(todo)))

\* todo_count.map(|n| n - 1)
TodoAfterTerminal(todo) ==
    IF IsNone(todo) THEN None ELSE Some(UsizeDec(Unwrap(todo)))

\* The arm Some(ProjectAction::ToClone)
OnToClone(a) ==
    [a EXCEPT !.todo_count = TodoAfterToClone(a.todo_count),
              !.total_count = UsizeInc(a.total_count)]

\* Variant of OnFailed that also counts the project as cloned.
OnFailedCountsCloned(a) ==
    [a EXCEPT !.cloned_count = UsizeInc(a.cloned_count),
              !.todo_count = TodoAfterTerminal(a.todo_count)]

\* The arm Some(ProjectAction::Failed { .. })
OnFailed(a) ==
    [a EXCEPT !.todo_count = TodoAfterTerminal(a.todo_count)]

\* Variant of OnCloned that forgets the bytes of the transfer.
OnClonedDropsBytes(a, received_bytes) ==
    [a EXCEPT !.cloned_count = UsizeInc(a.cloned_count),
              !.todo_count = TodoAfterTerminal(a.todo_count)]

\* The arm Some(ProjectAction::Cloned { .. })
OnCloned(a, received_bytes) ==
    [a EXCEPT !.cloned_count = UsizeInc(a.cloned_count),
              !.total_bytes = a.total_bytes + received_bytes,
              !.todo_count = TodoAfterTerminal(a.todo_count)]

\* Variant of CompletionCondition that is off by one.
CompletionOffByOne(todo) ==
    (IF IsNone(todo) THEN 0 ELSE Unwrap(todo)) <= 1

\* todo_count.unwrap_or(0) == 0
CompletionCondition(todo) ==
    (IF IsNone(todo) THEN 0 ELSE Unwrap(todo)) = 0

\* Variant of SummaryOnClosed that leaves the loop through the summary.
SummaryOnClosedPrinted == TRUE

\* The arm None => return Ok(()): whether the summary is printed on the way out.
SummaryOnClosed == FALSE

\* Variant of MainReturn that reports an error from the loop.
MainReturnAlwaysErr(fetchFailed) == "Err"

\* What main returns from the loop, given whether fetch_projects failed.
MainReturn(fetchFailed) == "Ok"

\* Variant of EventSendersDropped in which main keeps a sender of its own.
EventSendersKeptByMain == FALSE

\* Variant of EventSendersDropped in which the workers hold no sender.
EventSendersDroppedButWorkers ==
    /\ DiscoveryReturned
    /\ dispPc = "done"

\* Every sender of the event channel is dropped: discovery has returned, the
\* dispatcher has returned, every spawned worker has finished.
EventSendersDropped ==
    /\ DiscoveryReturned
    /\ dispPc = "done"
    /\ \A i \in 1..Len(workers) : workers[i].state # "spawned"

\* The code after the match: print the summary and return, or loop.
AfterEvent(a) ==
    IF CompletionCondition(a.todo_count)
    THEN /\ summary' = TRUE
         /\ aggPc' = "done"
         /\ mainResult' = MainReturn(discPc = "failed")
    ELSE UNCHANGED <<summary, aggPc, mainResult>>

AggToClone ==
    /\ Alive
    /\ chActions # <<>>
    /\ Head(chActions).type = "ToClone"
    /\ chActions' = Tail(chActions)
    /\ agg' = OnToClone(agg)
    /\ AfterEvent(OnToClone(agg))
    /\ procToClone' = procToClone \cup {Head(chActions).pub}
    /\ lastEvent' = "ToClone"
    /\ UNCHANGED <<variant, chProjects, dispPc, workers, failed_count,
                   procTerminal>>
    /\ UNCHANGED discVars

AggFailed ==
    /\ Alive
    /\ chActions # <<>>
    /\ Head(chActions).type = "Failed"
    /\ chActions' = Tail(chActions)
    /\ agg' = OnFailed(agg)
    /\ AfterEvent(OnFailed(agg))
    /\ failed_count' = failed_count + 1
    /\ procTerminal' = procTerminal \cup {Head(chActions).pub}
    /\ lastEvent' = "Failed"
    /\ UNCHANGED <<variant, chProjects, dispPc, workers, procToClone>>
    /\ UNCHANGED discVars

AggCloned ==
    /\ Alive
    /\ chActions # <<>>
    /\ Head(chActions).type = "Cloned"
    /\ chActions' = Tail(chActions)
    /\ agg' = OnCloned(agg, Head(chActions).received_bytes)
    /\ AfterEvent(OnCloned(agg, Head(chActions).received_bytes))
    /\ procTerminal' = procTerminal \cup {Head(chActions).pub}
    /\ lastEvent' = "Cloned"
    /\ UNCHANGED <<variant, chProjects, dispPc, workers, failed_count,
                   procToClone>>
    /\ UNCHANGED discVars

\* recv() yields None: the channel is empty and every sender is dropped.
AggClosed ==
    /\ Alive
    /\ chActions = <<>>
    /\ EventSendersDropped
    /\ aggPc' = "done"
    /\ summary' = SummaryOnClosed
    /\ mainResult' = MainReturn(discPc = "failed")
    /\ lastEvent' = "closed"
    /\ UNCHANGED <<variant, chProjects, chActions, dispPc, workers, agg,
                   failed_count, procToClone, procTerminal>>
    /\ UNCHANGED discVars

\* ------------------------------------------------------------ the program
Next ==
    \/ \E r \in Responses : Fetch(r)
    \/ SendToClone
    \/ SendProject
    \/ DispatchSpawn
    \/ DispatchClosed
    \/ \E i \in 1..Len(workers), o \in MirrorOutcomes, st \in TransferStats :
            WorkerRun(i, o, st)
    \/ AggToClone
    \/ AggFailed
    \/ AggCloned
    \/ AggClosed

Spec == Init /\ [][Next]_vars

TypeOK ==
    /\ variant \in {"gitlab", "main"}
    /\ discPc \in {"fetch", "publish", "done", "failed"}
    /\ dispPc \in {"recv", "done"}
    /\ aggPc \in {"run", "done"}
    /\ Len(chProjects) <= ChannelCap
    /\ Len(chActions) <= ChannelCap
    /\ mainResult \in {"none", "Ok", "Err"}

\* =================================================================== claims
\* The cursor the i-th listing request was made with, read off the listing.
PrevCursor(i) == IF i = 1 THEN None ELSE LastId(pages[i - 1].projects)

\* The i-th response ends the pagination: an empty page, or a page whose last
\* identifier is the last identifier of the page before it.
TerminalPage(i) ==
    /\ pages[i].ok
    /\ \/ Len(pages[i].projects) = 0
       \/ LastId(pages[i].projects) = PrevCursor(i)

EmittedWorkers == {i \in 1..Len(workers) : workers[i].state = "emitted"}

\* C1: when fetch_projects has returned Ok, the ToClone events sent and the
\* projects published both number the sum of the sizes of the pages before the
\* terminal page: the terminal (empty or repeated) page is not published.
C1_TerminalPageNotPublished ==
    discPc = "done" =>
        /\ toCloneSent = SumSizes(SubSeq(pages, 1, Len(pages) - 1))
        /\ projectsSent = SumSizes(SubSeq(pages, 1, Len(pages) - 1))

\* C2: discovery requests a further page only after pages that do not end the
\* pagination; once a page is empty or repeats the last identifier of the page
\* before it, no listing request follows, and fetch_projects returns Ok only
\* on such a page.
C2_DiscoveryStopsOnTerminalPage ==
    /\ \A i \in 1..(Len(pages) - 1) : pages[i].ok /\ ~TerminalPage(i)
    /\ (Len(pages) >= 1 /\ TerminalPage(Len(pages))) => discPc # "fetch"
    /\ discPc = "done" => (Len(pages) >= 1 /\ TerminalPage(Len(pages)))

C2_Witness ==
    /\ discPc = "done"
    /\ Len(pages) >= 2
    /\ Len(pages[Len(pages)].projects) > 0

\* C3: when the run has ended (main has returned), the ToClone events sent by
\* discovery, the terminal events emitted by the workers and the terminal
\* events processed by the aggregator are equally many.
C3_EveryAnnouncedResolvedOnce ==
    aggPc = "done" =>
        /\ toCloneSent = Cardinality(EmittedWorkers)
        /\ toCloneSent = agg.cloned_count + failed_count

\* C4: when the summary is printed, discovery has returned and the summary's
\* total is the number of projects discovery published.
C4_SummaryAfterDiscovery ==
    summary =>
        /\ DiscoveryReturned
        /\ agg.total_count = nPublished
        /\ agg.total_count = toCloneSent

\* C5: when the summary is printed, total_count is cloned_count plus the
\* number of Failed events processed.
C5_Conservation ==
    summary => agg.total_count = agg.cloned_count + failed_count

C5_Witness ==
    /\ summary
    /\ failed_count >= 1
    /\ agg.cloned_count >= 1

C7_TodoNeverUnderflows ==
    /\ (Alive /\ chActions # <<>> /\ Head(chActions).type # "ToClone") =>
            (~IsNone(agg.todo_count) /\ Unwrap(agg.todo_count) >= 1)
    /\ ~IsNone(agg.todo_count) => Unwrap(agg.todo_count) <= agg.total_count

C7_Witness ==
    /\ lastEvent \in {"Cloned", "Failed"}
    /\ agg.todo_count = Some(1)

\* C8: when the run has ended and a worker has reported Failed, every other
\* spawned worker has emitted its terminal event, and the summary was printed
\* with the failed project in the total and not in the cloned count.
C8_Isolation ==
    \A i \in 1..Len(workers) :
        (aggPc = "done" /\ workers[i].state = "emitted"
                        /\ workers[i].outcome = "Error") =>
            /\ \A j \in 1..Len(workers) : workers[j].state = "emitted"
            /\ summary
            /\ agg.cloned_count < agg.total_count

\* C9: when the first listing request fails, no ToClone event and no project
\* is ever sent, no worker is spawned, and the summary is never printed.
C9_FirstRequestFails ==
    (Len(pages) >= 1 /\ ~pages[1].ok) =>
        /\ toCloneSent = 0
        /\ projectsSent = 0
        /\ chActions = <<>>
        /\ chProjects = <<>>
        /\ workers = <<>>
        /\ agg.total_count = 0
        /\ ~summary

C9_Witness ==
    /\ Len(pages) >= 1
    /\ ~pages[1].ok
    /\ aggPc = "done"
    /\ dispPc = "done"

\* C10: when fetch_projects has returned an error and main has returned, main
\* has returned an error.
C10_ListingFailureIsFatal ==
    (discPc = "failed" /\ aggPc = "done") => mainResult = "Err"

PanickedWorkers == {i \in 1..Len(workers) : workers[i].state = "panicked"}

\* C11: no producer of events aborts because the event channel is full: a
\* worker that has run its mirror operation has delivered its event.
C11_NoProducerAbortsOnFull ==
    PanickedWorkers = {}

\* Every mirror operation run so far found its destination already there.
AllDestinationsExist ==
    \A i \in 1..Len(workers) : workers[i].outcome \in {"none", "Exists"}

\* C12: when a run in which every destination already exists has ended, every
\* published project has had a Cloned event processed, none a Failed one, no
\* byte was counted, and the summary was printed with cloned = total = the
\* number of projects published.
C12_IdempotentRerun ==
    (aggPc = "done" /\ nPublished >= 1 /\ AllDestinationsExist) =>
        /\ failed_count = 0
        /\ agg.total_bytes = 0
        /\ procTerminal = 1..nPublished
        /\ summary
        /\ agg.cloned_count = agg.total_count
        /\ agg.total_count = nPublished

\* The terminal events of publication p standing in the event channel.
QueuedTerminal(p) ==
    {j \in 1..Len(chActions) :
        chActions[j].type # "ToClone" /\ chActions[j].pub = p}

\* C13: a worker that has run its mirror operation has emitted exactly one
\* terminal event (queued or processed, never both), and the event is
\* classified by the outcome: Cloned for Ok, Cloned with counts 0 for Exists,
\* Failed with the error text for any other error.
C13_OneClassifiedTerminalEvent ==
    \A i \in 1..Len(workers) :
        LET p == workers[i].pub
            n == Cardinality(QueuedTerminal(p)) + (IF p \in procTerminal THEN 1 ELSE 0)
        IN  /\ workers[i].state = "spawned" => n = 0
            /\ workers[i].state # "spawned" => n = 1
            /\ \A j \in QueuedTerminal(p) :
                  /\ workers[i].outcome = "Ok" => chActions[j].type = "Cloned"
                  /\ workers[i].outcome = "Exists" =>
                        /\ chActions[j].type = "Cloned"
                        /\ chActions[j].received_bytes = 0
                        /\ chActions[j].received_objects = 0
                  /\ workers[i].outcome = "Error" =>
                        /\ chActions[j].type = "Failed"
                        /\ chActions[j].err # "none"

\* The effect on the counters of a step that takes the event e off the channel.
C14_Effect(e) ==
    CASE e.type = "ToClone" ->
            /\ agg'.todo_count =
                  (IF IsNone(agg.todo_count) THEN Some(1)
                   ELSE Some(Unwrap(agg.todo_count) + 1))
            /\ agg'.total_count = agg.total_count + 1
            /\ agg'.cloned_count = agg.cloned_count
            /\ agg'.total_bytes = agg.total_bytes
      [] e.type = "Cloned" ->
            /\ ~IsNone(agg.todo_count)
            /\ agg'.todo_count = Some(Unwrap(agg.todo_count) - 1)
            /\ agg'.cloned_count = agg.cloned_count + 1
            /\ agg'.total_bytes = agg.total_bytes + e.received_bytes
            /\ agg'.total_count = agg.total_count
      [] OTHER ->
            /\ ~IsNone(agg.todo_count)
            /\ agg'.todo_count = Some(Unwrap(agg.todo_count) - 1)
            /\ agg'.cloned_count = agg.cloned_count
            /\ agg'.total_bytes = agg.total_bytes
            /\ agg'.total_count = agg.total_count

\* C14: every step that takes an event off the event channel takes exactly
\* one, the head, and changes the counters as the table says (ToClone: todo
\* and total + 1; Cloned: cloned + 1, bytes added, todo - 1; Failed: todo - 1
\* and nothing else); no other step changes the counters.
C14_AggregatorEffects ==
    [][IF Len(chActions') < Len(chActions)
       THEN /\ chActions' = Tail(chActions)
            /\ C14_Effect(Head(chActions))
       ELSE agg' = agg]_vars

C14_Witness ==
    /\ agg.total_bytes >= 1
    /\ failed_count >= 1
    /\ agg.total_count >= 2

\* C15: the summary has been printed exactly when the event processed last is
\* a Cloned or Failed event that left todo_count at zero (so never right after
\* a ToClone event); once it is printed the aggregator has returned and takes
\* no further event: the counters, the event channel and the summary stay as
\* they are.
C15_CompletionRule ==
    /\ [](summary <=> (lastEvent \in {"Cloned", "Failed"}
                       /\ agg.todo_count = Some(0)))
    /\ [](summary => aggPc = "done")
    /\ [][summary => (/\ summary'
                      /\ agg' = agg
                      /\ chActions' = chActions
                      /\ lastEvent' = lastEvent)]_vars

C15_Witness ==
    /\ summary
    /\ agg.total_count >= 2
    /\ lastEvent = "Failed"

\* C16: every project taken off the project channel has exactly one worker
\* (the k-th worker is the worker of the k-th publication); the dispatcher
\* stops only when the channel is empty and discovery has returned; and while
\* the process runs, a project waiting in the channel can be received whatever
\* the state of the workers spawned before.
C16_OneWorkerPerProject ==
    /\ Len(workers) + Len(chProjects) = projectsSent
    /\ \A i \in 1..Len(workers) : workers[i].pub = i
    /\ \A j \in 1..Len(chProjects) : chProjects[j].pub = Len(workers) + j
    /\ dispPc = "done" => (DiscoveryReturned /\ chProjects = <<>>)
    /\ (Alive /\ dispPc = "recv" /\ chProjects # <<>>) => ENABLED DispatchSpawn

\* Two workers are active at once.
C16_Witness ==
    /\ Len(workers) >= 2
    /\ \A i \in 1..Len(workers) : workers[i].state = "spawned"

\* C17: the destination paths of the workers dispatched in a run are pairwise
\* distinct.
C17_DisjointDestinations ==
    \A i, j \in 1..Len(workers) :
        i # j => DestinationPath(workers[i]) # DestinationPath(workers[j])

\* The projects of the pages received, in page order and listing order.
RECURSIVE Flatten(_)
Flatten(ps) ==
    IF ps = <<>> THEN <<>> ELSE Head(ps).projects \o Flatten(Tail(ps))

\* The identifiers sent on the project channel so far, in sending order: the
\* dispatcher receives in FIFO order and appends one worker per project.
PublishedIds ==
    [k \in 1..(Len(workers) + Len(chProjects)) |->
        IF k <= Len(workers) THEN workers[k].id
        ELSE chProjects[k - Len(workers)].id]

\* C18: the projects sent so far are, in order, the first projects of the
\* listing (page order, then listing order); the ToClone events sent number
\* the projects sent, or one more exactly while discovery stands between the
\* ToClone send and the project send of one loop body.
C18_PublishOrder ==
    /\ projectsSent <= Len(Flatten(pages))
    /\ PublishedIds = SubSeq(Flatten(pages), 1, projectsSent)
    /\ toCloneSent \in {projectsSent, projectsSent + 1}
    /\ toCloneSent = projectsSent + 1 <=> (discPc = "publish" /\ discStep = 2)

C18_Witness ==
    /\ projectsSent >= 2
    /\ Len(pages) >= 1
    /\ Len(pages[1].projects) = 2

\* C19: the aggregator has seen the event channel closed only if discovery has
\* returned, the dispatcher has stopped, no spawned worker is still running
\* and the channel is empty.  While fetch_projects has not returned, neither
\* channel reports closed; once it has returned and the project channel is
\* drained, the dispatcher's receive reports closed, and so does the
\* aggregator's once the other senders are gone and the event channel is
\* drained.
C19_ClosedOnlyAfterAllSenders ==
    /\ lastEvent = "closed" =>
          /\ DiscoveryReturned
          /\ dispPc = "done"
          /\ \A i \in 1..Len(workers) : workers[i].state # "spawned"
          /\ chActions = <<>>
          /\ chProjects = <<>>
    /\ ~DiscoveryReturned => (~ENABLED DispatchClosed /\ ~ENABLED AggClosed)
    /\ (Alive /\ DiscoveryReturned /\ dispPc = "recv" /\ chProjects = <<>>) =>
          ENABLED DispatchClosed
    /\ (Alive /\ DiscoveryReturned /\ dispPc = "done" /\ chActions = <<>>
              /\ \A i \in 1..Len(workers) : workers[i].state # "spawned") =>
          ENABLED AggClosed

C19_Witness ==
    /\ lastEvent = "closed"
    /\ Len(workers) >= 1
    /\ discPc = "done"

\* C20: a failed listing request is the last one; when fetch_projects has
\* returned the error, exactly the projects of the pages before it are
\* published (each with its ToClone event), and when the run has ended each
\* of them has had its Cloned or Failed event processed.
C20_FailureEndsDiscovery ==
    /\ \A i \in 1..(Len(pages) - 1) : pages[i].ok
    /\ discPc = "failed" =>
          /\ ~pages[Len(pages)].ok
          /\ toCloneSent = SumSizes(pages)
          /\ projectsSent = SumSizes(pages)
    /\ (discPc = "failed" /\ aggPc = "done") => procTerminal = 1..projectsSent

\* ------------------------------------------------------------ fair scheduling
\* The runtime schedules every task that can run, every listing request is
\* answered (the client has a timeout) and every mirror operation returns.
\* One fairness condition per task: discovery, the dispatcher, each worker,
\* the aggregator.
Fairness ==
    /\ WF_vars((\E r \in Responses : Fetch(r)) \/ SendToClone \/ SendProject)
    /\ WF_vars(DispatchSpawn \/ DispatchClosed)
    /\ \A i \in 1..MaxListed :
          WF_vars(/\ i <= Len(workers)
                  /\ \E o \in MirrorOutcomes, st \in TransferStats :
                        WorkerRun(i, o, st))
    /\ WF_vars(AggToClone \/ AggFailed \/ AggCloned \/ AggClosed)

FairSpec == Spec /\ Fairness

TodoOrZero == IF IsNone(agg.todo_count) THEN 0 ELSE Unwrap(agg.todo_count)

\* C22: in every state of the aggregator, todo_count (0 while undefined) is
\* total_count minus the number of Cloned and Failed events processed,
\* cloned_count is at most total_count, and todo_count is undefined exactly
\* when no ToClone event has been processed.
C22_CountersConsistent ==
    /\ TodoOrZero = agg.total_count - Cardinality(procTerminal)
    /\ Cardinality(procTerminal) = agg.cloned_count + failed_count
    /\ agg.total_count = Cardinality(procToClone)
    /\ agg.cloned_count <= agg.total_count
    /\ IsNone(agg.todo_count) <=> procToClone = {}

\* Two projects announced, one of them resolved, the other still to do.
C22_Witness ==
    /\ agg.total_count = 2
    /\ Cardinality(procTerminal) = 1
    /\ agg.todo_count = Some(1)
    /\ aggPc = "run"
\* C23: when the first page of the listing is empty, no event is ever sent or
\* processed, no worker is spawned, the summary is never printed, the
\* aggregator can only leave its loop by seeing the event channel closed, and
\* main then returns Ok.
C23_EmptyListing ==
    (Len(pages) >= 1 /\ pages[1].ok /\ pages[1].projects = <<>>) =>
        /\ discPc = "done"
        /\ Len(pages) = 1
        /\ toCloneSent = 0
        /\ chActions = <<>>
        /\ procToClone = {}
        /\ procTerminal = {}
        /\ workers = <<>>
        /\ lastEvent \in {"none", "closed"}
        /\ ~summary
        /\ aggPc = "run" => (dispPc = "done" <=> ENABLED AggClosed)
        /\ aggPc = "done" => (lastEvent = "closed" /\ mainResult = "Ok")

\* The empty listing, after main has returned.
C23_Witness ==
    /\ Len(pages) = 1
    /\ pages[1].ok
    /\ pages[1].projects = <<>>
    /\ aggPc = "done"
    /\ mainResult = "Ok"

====
